---- MODULE Spec2Model ----
(***************************************************************************)
(* Lifecycle watchdog of the Playwright MCP server entry point             *)
(* (src/src/program.ts, setupExitWatchdog).                                *)
(*                                                                         *)
(* Everything runs on one non-preemptive run loop, so every handler        *)
(* (timer callback, signal handler, stdin listener, continuation of the    *)
(* awaited server.stop()) is one atomic action.  Time is kept in           *)
(* milliseconds and advances in steps of at most TickMs, never past the    *)
(* deadline of a pending timer.                                            *)
(***************************************************************************)
EXTENDS Integers, FiniteSets, Sequences, TLC

\* ---------------------------------------------------------------- bounds
MaxSeconds == 2          \* --max-lifetime / --idle-timeout range over 1..MaxSeconds

\* ------------------------------------------------------ program constants
MS_PER_SECOND == 1000    \* maxLifetimeSeconds * 1000, idleTimeoutSeconds * 1000
FORCE_EXIT_MS == 15000   \* setTimeout(() => process.exit(0), 15000)
FORCE_EXIT_CODE == 0     \* the status the force-exit callback passes to process.exit

TickMs == MS_PER_SECOND  \* one Tick lets at most one second pass

NoTimer == -1            \* value of a timer handle that was never assigned
NoExit == -1             \* exitCode while the process is running

ClockCap == (MaxSeconds + 2) * MS_PER_SECOND   \* armedFor / quietFor saturate here
ShutdownCap == FORCE_EXIT_MS + MS_PER_SECOND   \* shutdownFor saturates here

NodeEnvs == {"test", "production"}
StopEntryOutcomes == {"pending", "threw"}

VARIABLES
  maxLifetimeSeconds,   \* option --max-lifetime
  idleTimeoutSeconds,   \* option --idle-timeout
  nodeEnv,              \* process.env.NODE_ENV
  vision,               \* option --vision was given (options.vision is true, else undefined)
  tools,                \* the registry handed to new Server(...)
  isShuttingDown,       \* the guard flag of shutdown()
  timers,               \* the pending timers of the run loop: [id, kind, remaining]
  maxLifetimeTimeout,   \* handle (timer id)
  idleTimer,            \* handle (timer id)
  forceExitTimeout,     \* handle (timer id), NoTimer before shutdown
  stopCalls,            \* number of invocations of server.stop()
  stopState,            \* "notCalled" | "pending" | "resolved" | "rejected" | "threw"
  startState,           \* server.start(): "pending" | "started"
  stdinOpen,            \* stdin has not emitted "close"
  stderr,               \* the set of diagnostics written to process.stderr
  exited,               \* process.exit() has run
  exitCode,             \* its status
  exitPath,             \* "none" | "graceful" | "stopFailed" | "forceExit"
  \* history variables (not program state)
  shutdownCause,        \* the trigger that won, "none" while Armed
  dataSeen,             \* a stdin data event happened while Armed
  armedFor,             \* ms elapsed since arming, frozen when shutdown begins
  quietFor,             \* ms elapsed since the last stdin data (or arming), frozen likewise
  shutdownFor           \* ms elapsed since shutdown began, 0 while Armed

vars == <<maxLifetimeSeconds, idleTimeoutSeconds, nodeEnv, vision, tools,
          isShuttingDown, timers,
          maxLifetimeTimeout, idleTimer, forceExitTimeout, stopCalls, stopState,
          startState, stdinOpen, stderr, exited, exitCode, exitPath,
          shutdownCause, dataSeen, armedFor, quietFor, shutdownFor>>

optionVars == <<maxLifetimeSeconds, idleTimeoutSeconds, nodeEnv, vision, tools>>
exitVars == <<exited, exitCode, exitPath>>
clockVars == <<armedFor, quietFor, shutdownFor>>

\* ------------------------------------------------------------- tool registry
\* a Tool value as the entry point sees it: the module that exports it, the
\* export, and the argument of the factory call ("none" for a plain export)
Tool(m, e) == [module |-> m, export |-> e, arg |-> "none"]

ToolFor(m, e, a) == [module |-> m, export |-> e, arg |-> a]

commonTools ==
  <<Tool("common", "pressKey"), Tool("common", "wait"), Tool("common", "pdf"),
    Tool("common", "close")>>

snapshotTools ==
  <<ToolFor("common", "navigate", "true"), ToolFor("common", "goBack", "true"),
    ToolFor("common", "goForward", "true"), Tool("snapshot", "snapshot"),
    Tool("snapshot", "click"), Tool("snapshot", "hover"), Tool("snapshot", "type")>>
  \o commonTools

screenshotTools_SnapshotNavigate ==
  <<ToolFor("common", "navigate", "true"), ToolFor("common", "goBack", "false"),
    ToolFor("common", "goForward", "false"), Tool("screenshot", "screenshot"),
    Tool("screenshot", "moveMouse"), Tool("screenshot", "click"),
    Tool("screenshot", "drag"), Tool("screenshot", "type")>>
  \o commonTools

screenshotTools ==
  <<ToolFor("common", "navigate", "false"), ToolFor("common", "goBack", "false"),
    ToolFor("common", "goForward", "false"), Tool("screenshot", "screenshot"),
    Tool("screenshot", "moveMouse"), Tool("screenshot", "click"),
    Tool("screenshot", "drag"), Tool("screenshot", "type")>>
  \o commonTools

\* the name a Tool is registered under, as the specification lists the tools
ToolName(t) ==
  CASE t.export = "goBack" -> "back"
    [] t.export = "goForward" -> "forward"
    [] t.export = "moveMouse" -> "move-mouse"
    [] t.export = "pressKey" -> "press-key"
    [] t.export = "pdf" -> "export-to-pdf"
    [] OTHER -> t.export

Range(seq) == {seq[i] : i \in DOMAIN seq}

Exports(seq) == [i \in DOMAIN seq |-> seq[i].export]

Names(seq) == [i \in DOMAIN seq |-> ToolName(seq[i])]

NoDuplicates(seq) == Cardinality(Range(seq)) = Len(seq)

\* the part of a registry that precedes the spread ...commonTools
ModePart(reg) == SubSeq(reg, 1, Len(reg) - Len(commonTools))

CommonPart(reg) == SubSeq(reg, Len(reg) - Len(commonTools) + 1, Len(reg))

\* const tools = options.vision ? screenshotTools : snapshotTools
SelectTools_Swapped(v) == IF v THEN snapshotTools ELSE screenshotTools

SelectTools(v) == IF v THEN screenshotTools ELSE snapshotTools

\* ------------------------------------------------------------ run-loop timers
Min(a, b) == IF a < b THEN a ELSE b

TimerIds(ts) == {t.id : t \in ts}

Pending(ts, id) == id \in TimerIds(ts)

\* the timer object setTimeout returns, about to be assigned to the handle whose
\* value is old: it is distinct from every pending timer and from every other
\* handle; the object only the overwritten handle referred to is unreachable
Handles == <<maxLifetimeTimeout, idleTimer, forceExitTimeout>>

FreshId(ts, old) ==
  LET held == {Handles[k] : k \in {j \in 1..3 : Handles[j] # old}}
      used == TimerIds(ts) \cup held
  IN CHOOSE i \in 0..Cardinality(used) :
       /\ i \notin used
       /\ \A j \in 0..(i - 1) : j \in used

setTimeout(ts, id, kind, ms) == ts \cup {[id |-> id, kind |-> kind, remaining |-> ms]}

clearTimeout(ts, id) == {t \in ts : t.id # id}

Due(ts) == {t \in ts : t.remaining = 0}

\* the time one Tick lets pass: never beyond the earliest pending deadline
Step(ts) ==
  IF ts = {} THEN TickMs
  ELSE LET m == CHOOSE r \in {t.remaining : t \in ts} :
                   \A t \in ts : r <= t.remaining
       IN Min(TickMs, m)

Elapse(ts, d) == {[t EXCEPT !.remaining = t.remaining - d] : t \in ts}

maxLifetimeMs == maxLifetimeSeconds * MS_PER_SECOND

idleTimeoutMs_Swapped == maxLifetimeSeconds * MS_PER_SECOND

idleTimeoutMs == idleTimeoutSeconds * MS_PER_SECOND

\* process.on("exit"): if (idleTimer) clearTimeout(idleTimer); clearTimeout(maxLifetimeTimeout)
ExitHandler(ts) == clearTimeout(clearTimeout(ts, idleTimer), maxLifetimeTimeout)

\* process.exit(code): the exit listeners run, then the process is gone
ProcessExit(ts, code, path) ==
  /\ timers' = ExitHandler(ts)
  /\ exited' = TRUE
  /\ exitCode' = code
  /\ exitPath' = path

\* ------------------------------------------------------------------ shutdown
\* shutdown() up to its first suspension, called by a handler that has already
\* turned the pending timers into ts; cause names the calling trigger.
shutdown_NoGuard(ts, cause) ==
  LET fid == FreshId(ts, forceExitTimeout)
      armed == setTimeout(ts, fid, "forceExit", FORCE_EXIT_MS)
  IN /\ isShuttingDown' = TRUE
     /\ forceExitTimeout' = fid
     /\ stopCalls' = stopCalls + 1
     /\ shutdownCause' = IF shutdownCause = "none" THEN cause ELSE shutdownCause
     /\ \E outcome \in StopEntryOutcomes :
          IF outcome = "threw"
          THEN /\ stopState' = "threw"
               /\ ProcessExit(armed, 1, "stopFailed")
          ELSE /\ stopState' = "pending"
               /\ timers' = armed
               /\ UNCHANGED exitVars

shutdown_NoForceExit(ts, cause) ==
  IF isShuttingDown
  THEN /\ timers' = ts
       /\ UNCHANGED <<isShuttingDown, forceExitTimeout, stopCalls, stopState,
                      shutdownCause, exitVars>>
  ELSE /\ isShuttingDown' = TRUE
       /\ stopCalls' = stopCalls + 1
       /\ shutdownCause' = cause
       /\ UNCHANGED forceExitTimeout
       /\ \E outcome \in StopEntryOutcomes :
            IF outcome = "threw"
            THEN /\ stopState' = "threw"
                 /\ ProcessExit(ts, 1, "stopFailed")
            ELSE /\ stopState' = "pending"
                 /\ timers' = ts
                 /\ UNCHANGED exitVars

shutdown_StopFirst(ts, cause) ==
  IF isShuttingDown
  THEN /\ timers' = ts
       /\ UNCHANGED <<isShuttingDown, forceExitTimeout, stopCalls, stopState,
                      shutdownCause, exitVars>>
  ELSE LET fid == FreshId(ts, forceExitTimeout)
           armed == setTimeout(ts, fid, "forceExit", FORCE_EXIT_MS)
       IN /\ isShuttingDown' = TRUE
          /\ stopCalls' = stopCalls + 1
          /\ shutdownCause' = cause
          /\ \E outcome \in StopEntryOutcomes :
               IF outcome = "threw"
               THEN /\ stopState' = "threw"
                    /\ UNCHANGED forceExitTimeout
                    /\ ProcessExit(ts, 1, "stopFailed")
               ELSE /\ stopState' = "pending"
                    /\ forceExitTimeout' = fid
                    /\ timers' = armed
                    /\ UNCHANGED exitVars

shutdown(ts, cause) ==
  IF isShuttingDown
  THEN \* if (isShuttingDown) return;
       /\ timers' = ts
       /\ UNCHANGED <<isShuttingDown, forceExitTimeout, stopCalls, stopState,
                      shutdownCause, exitVars>>
  ELSE LET fid == FreshId(ts, forceExitTimeout)
           armed == setTimeout(ts, fid, "forceExit", FORCE_EXIT_MS)
       IN /\ isShuttingDown' = TRUE
          /\ forceExitTimeout' = fid
          /\ stopCalls' = stopCalls + 1
          /\ shutdownCause' = cause
          /\ \E outcome \in StopEntryOutcomes :
               IF outcome = "threw"
               THEN \* server.stop() throws before returning a promise: catch
                    /\ stopState' = "threw"
                    /\ ProcessExit(armed, 1, "stopFailed")
               ELSE \* await server.stop() suspends shutdown()
                    /\ stopState' = "pending"
                    /\ timers' = armed
                    /\ UNCHANGED exitVars

\* ------------------------------------------------------------------- Init
Init ==
  /\ maxLifetimeSeconds \in 1..MaxSeconds
  /\ idleTimeoutSeconds \in 1..MaxSeconds
  /\ nodeEnv \in NodeEnvs
  /\ vision \in BOOLEAN
  /\ tools = SelectTools(vision)
  /\ isShuttingDown = FALSE
  /\ maxLifetimeTimeout = 0
  /\ idleTimer = 1
  /\ forceExitTimeout = NoTimer
  /\ timers = setTimeout(setTimeout({}, 0, "maxLifetime", maxLifetimeMs),
                         1, "idle", idleTimeoutMs)
  /\ stopCalls = 0
  /\ stopState = "notCalled"
  /\ startState = "pending"
  /\ stdinOpen = TRUE
  /\ stderr = {}
  /\ exited = FALSE
  /\ exitCode = NoExit
  /\ exitPath = "none"
  /\ shutdownCause = "none"
  /\ dataSeen = FALSE
  /\ armedFor = 0
  /\ quietFor = 0
  /\ shutdownFor = 0

\* ---------------------------------------------------------------- actions
\* time passes; a due timer runs before any more time passes
Tick ==
  /\ ~exited
  /\ Due(timers) = {}
  /\ LET d == Step(timers)
     IN /\ timers' = Elapse(timers, d)
        /\ armedFor' = IF isShuttingDown THEN armedFor ELSE Min(armedFor + d, ClockCap)
        /\ quietFor' = IF isShuttingDown THEN quietFor ELSE Min(quietFor + d, ClockCap)
        /\ shutdownFor' = IF isShuttingDown THEN Min(shutdownFor + d, ShutdownCap)
                           ELSE shutdownFor
  /\ UNCHANGED <<optionVars, isShuttingDown, maxLifetimeTimeout, idleTimer,
                 forceExitTimeout, stopCalls, stopState, startState, stdinOpen,
                 stderr, exitVars, shutdownCause, dataSeen>>

MaxLifetimeFires_LogOnly ==
  /\ ~exited
  /\ \E t \in Due(timers) :
       /\ t.kind = "maxLifetime"
       /\ timers' = timers \ {t}
       /\ stderr' = IF nodeEnv # "test" THEN stderr \cup {"maxLifetime"} ELSE stderr
  /\ UNCHANGED <<optionVars, isShuttingDown, forceExitTimeout, stopCalls, stopState,
                 shutdownCause, exitVars, maxLifetimeTimeout, idleTimer, startState,
                 stdinOpen, dataSeen, clockVars>>

\* the callback of maxLifetimeTimeout
MaxLifetimeFires ==
  /\ ~exited
  /\ \E t \in Due(timers) :
       /\ t.kind = "maxLifetime"
       /\ IF nodeEnv # "test"
          THEN /\ stderr' = stderr \cup {"maxLifetime"}
               /\ shutdown(timers \ {t}, "maxLifetime")
          ELSE /\ timers' = timers \ {t}
               /\ UNCHANGED <<stderr, isShuttingDown, forceExitTimeout, stopCalls,
                              stopState, shutdownCause, exitVars>>
  /\ UNCHANGED <<optionVars, maxLifetimeTimeout, idleTimer, startState, stdinOpen,
                 dataSeen, clockVars>>

\* the callback of an idle timer (the one armed at setup or a re-armed one)
IdleTimerFires ==
  /\ ~exited
  /\ \E t \in Due(timers) :
       /\ t.kind = "idle"
       /\ stderr' = stderr \cup {"idle"}
       /\ shutdown(timers \ {t}, "idle")
  /\ UNCHANGED <<optionVars, maxLifetimeTimeout, idleTimer, startState, stdinOpen,
                 dataSeen, clockVars>>

\* the callback of forceExitTimeout: process.exit(0)
ForceExitFires ==
  /\ ~exited
  /\ \E t \in Due(timers) :
       /\ t.kind = "forceExit"
       /\ ProcessExit(timers \ {t}, FORCE_EXIT_CODE, "forceExit")
  /\ UNCHANGED <<optionVars, isShuttingDown, maxLifetimeTimeout, idleTimer,
                 forceExitTimeout, stopCalls, stopState, startState, stdinOpen,
                 stderr, shutdownCause, dataSeen, clockVars>>

\* process.stdin.on("data", ...)
StdinData_NoReset ==
  /\ ~exited
  /\ stdinOpen
  /\ dataSeen' = (dataSeen \/ ~isShuttingDown)
  /\ quietFor' = IF isShuttingDown THEN quietFor ELSE 0
  /\ UNCHANGED <<optionVars, isShuttingDown, timers, idleTimer, maxLifetimeTimeout,
                 forceExitTimeout, stopCalls, stopState, startState, stdinOpen,
                 stderr, exitVars, shutdownCause, armedFor, shutdownFor>>

StdinData_ResetsLifetime ==
  /\ ~exited
  /\ stdinOpen
  /\ LET cleared == clearTimeout(clearTimeout(timers, idleTimer), maxLifetimeTimeout)
         id == FreshId(cleared, idleTimer)
         rearmed == setTimeout(cleared, id, "idle", idleTimeoutMs)
     IN /\ timers' = IF Pending(timers, maxLifetimeTimeout)
                     THEN setTimeout(rearmed, maxLifetimeTimeout, "maxLifetime",
                                     maxLifetimeMs)
                     ELSE rearmed
        /\ idleTimer' = id
  /\ dataSeen' = (dataSeen \/ ~isShuttingDown)
  /\ quietFor' = IF isShuttingDown THEN quietFor ELSE 0
  /\ UNCHANGED <<optionVars, isShuttingDown, maxLifetimeTimeout, forceExitTimeout,
                 stopCalls, stopState, startState, stdinOpen, stderr, exitVars,
                 shutdownCause, armedFor, shutdownFor>>

StdinData_NoClear ==
  /\ ~exited
  /\ stdinOpen
  /\ LET id == FreshId(timers, idleTimer)
     IN /\ timers' = setTimeout(timers, id, "idle", idleTimeoutMs)
        /\ idleTimer' = id
  /\ dataSeen' = (dataSeen \/ ~isShuttingDown)
  /\ quietFor' = IF isShuttingDown THEN quietFor ELSE 0
  /\ UNCHANGED <<optionVars, isShuttingDown, maxLifetimeTimeout, forceExitTimeout,
                 stopCalls, stopState, startState, stdinOpen, stderr, exitVars,
                 shutdownCause, armedFor, shutdownFor>>

StdinData_PostponesForceExit ==
  /\ ~exited
  /\ stdinOpen
  /\ LET cleared == clearTimeout(timers, idleTimer)
         id == FreshId(cleared, idleTimer)
         rearmed == setTimeout(cleared, id, "idle", idleTimeoutMs)
     IN /\ timers' = IF Pending(timers, forceExitTimeout)
                     THEN setTimeout(clearTimeout(rearmed, forceExitTimeout),
                                     forceExitTimeout, "forceExit", FORCE_EXIT_MS)
                     ELSE rearmed
        /\ idleTimer' = id
  /\ dataSeen' = (dataSeen \/ ~isShuttingDown)
  /\ quietFor' = IF isShuttingDown THEN quietFor ELSE 0
  /\ UNCHANGED <<optionVars, isShuttingDown, maxLifetimeTimeout, forceExitTimeout,
                 stopCalls, stopState, startState, stdinOpen, stderr, exitVars,
                 shutdownCause, armedFor, shutdownFor>>

StdinData_ClearsLifetime ==
  /\ ~exited
  /\ stdinOpen
  /\ LET cleared == clearTimeout(timers, maxLifetimeTimeout)
         id == FreshId(cleared, idleTimer)
     IN /\ timers' = setTimeout(clearTimeout(cleared, idleTimer), id, "idle",
                                idleTimeoutMs)
        /\ idleTimer' = id
  /\ dataSeen' = (dataSeen \/ ~isShuttingDown)
  /\ quietFor' = IF isShuttingDown THEN quietFor ELSE 0
  /\ UNCHANGED <<optionVars, isShuttingDown, maxLifetimeTimeout, forceExitTimeout,
                 stopCalls, stopState, startState, stdinOpen, stderr, exitVars,
                 shutdownCause, armedFor, shutdownFor>>

StdinData ==
  /\ ~exited
  /\ stdinOpen
  /\ IF idleTimer # NoTimer
     THEN LET cleared == clearTimeout(timers, idleTimer)
              id == FreshId(cleared, idleTimer)
          IN /\ timers' = setTimeout(cleared, id, "idle", idleTimeoutMs)
             /\ idleTimer' = id
     ELSE UNCHANGED <<timers, idleTimer>>
  /\ dataSeen' = (dataSeen \/ ~isShuttingDown)
  /\ quietFor' = IF isShuttingDown THEN quietFor ELSE 0
  /\ UNCHANGED <<optionVars, isShuttingDown, maxLifetimeTimeout, forceExitTimeout,
                 stopCalls, stopState, startState, stdinOpen, stderr, exitVars,
                 shutdownCause, armedFor, shutdownFor>>

\* process.on("SIGINT", shutdown)
Sigint ==
  /\ ~exited
  /\ shutdown(timers, "SIGINT")
  /\ UNCHANGED <<optionVars, maxLifetimeTimeout, idleTimer, startState, stdinOpen,
                 stderr, dataSeen, clockVars>>

\* process.on("SIGTERM", shutdown)
Sigterm ==
  /\ ~exited
  /\ shutdown(timers, "SIGTERM")
  /\ UNCHANGED <<optionVars, maxLifetimeTimeout, idleTimer, startState, stdinOpen,
                 stderr, dataSeen, clockVars>>

\* process.stdin.on("close", shutdown)
StdinClose_Ignored ==
  /\ ~exited
  /\ stdinOpen
  /\ stdinOpen' = FALSE
  /\ UNCHANGED <<optionVars, isShuttingDown, timers, maxLifetimeTimeout, idleTimer,
                 forceExitTimeout, stopCalls, stopState, startState, stderr,
                 exitVars, shutdownCause, dataSeen, clockVars>>

StdinClose ==
  /\ ~exited
  /\ stdinOpen
  /\ stdinOpen' = FALSE
  /\ shutdown(timers, "close")
  /\ UNCHANGED <<optionVars, maxLifetimeTimeout, idleTimer, startState, stderr,
                 dataSeen, clockVars>>

\* the awaited server.stop() resolved: clearTimeout(forceExitTimeout); process.exit(0)
StopResolves_NoClear ==
  /\ ~exited
  /\ stopState = "pending"
  /\ stopState' = "resolved"
  /\ ProcessExit(timers, 0, "graceful")
  /\ UNCHANGED <<optionVars, isShuttingDown, maxLifetimeTimeout, idleTimer,
                 forceExitTimeout, stopCalls, startState, stdinOpen, stderr,
                 shutdownCause, dataSeen, clockVars>>

StopResolves ==
  /\ ~exited
  /\ stopState = "pending"
  /\ stopState' = "resolved"
  /\ ProcessExit(clearTimeout(timers, forceExitTimeout), 0, "graceful")
  /\ UNCHANGED <<optionVars, isShuttingDown, maxLifetimeTimeout, idleTimer,
                 forceExitTimeout, stopCalls, startState, stdinOpen, stderr,
                 shutdownCause, dataSeen, clockVars>>

\* the awaited server.stop() rejected: catch (error) { process.exit(1) }
StopRejects_Swallowed ==
  /\ ~exited
  /\ stopState = "pending"
  /\ stopState' = "rejected"
  /\ UNCHANGED <<optionVars, isShuttingDown, timers, maxLifetimeTimeout, idleTimer,
                 forceExitTimeout, stopCalls, startState, stdinOpen, stderr,
                 exitVars, shutdownCause, dataSeen, clockVars>>

StopRejects_ResetsGuard ==
  /\ ~exited
  /\ stopState = "pending"
  /\ stopState' = "rejected"
  /\ isShuttingDown' = FALSE
  /\ UNCHANGED <<optionVars, timers, maxLifetimeTimeout, idleTimer,
                 forceExitTimeout, stopCalls, startState, stdinOpen, stderr,
                 exitVars, shutdownCause, dataSeen, clockVars>>

StopRejects ==
  /\ ~exited
  /\ stopState = "pending"
  /\ stopState' = "rejected"
  /\ ProcessExit(timers, 1, "stopFailed")
  /\ UNCHANGED <<optionVars, isShuttingDown, maxLifetimeTimeout, idleTimer,
                 forceExitTimeout, stopCalls, startState, stdinOpen, stderr,
                 shutdownCause, dataSeen, clockVars>>

\* await server.start() completes (program.action)
StartCompletes_ArmsWatchdog ==
  /\ ~exited
  /\ startState = "pending"
  /\ startState' = "started"
  /\ timers' = setTimeout(setTimeout(clearTimeout(clearTimeout(timers, maxLifetimeTimeout),
                                                  idleTimer),
                                     maxLifetimeTimeout, "maxLifetime", maxLifetimeMs),
                          idleTimer, "idle", idleTimeoutMs)
  /\ UNCHANGED <<optionVars, isShuttingDown, maxLifetimeTimeout, idleTimer,
                 forceExitTimeout, stopCalls, stopState, stdinOpen, stderr,
                 exitVars, shutdownCause, dataSeen, clockVars>>

StartCompletes ==
  /\ ~exited
  /\ startState = "pending"
  /\ startState' = "started"
  /\ UNCHANGED <<optionVars, isShuttingDown, timers, maxLifetimeTimeout, idleTimer,
                 forceExitTimeout, stopCalls, stopState, stdinOpen, stderr,
                 exitVars, shutdownCause, dataSeen, clockVars>>

Next ==
  \/ Tick
  \/ MaxLifetimeFires
  \/ IdleTimerFires
  \/ ForceExitFires
  \/ StdinData
  \/ Sigint
  \/ Sigterm
  \/ StdinClose
  \/ StopResolves
  \/ StopRejects
  \/ StartCompletes

Spec == Init /\ [][Next]_vars

\* The run loop runs a due timer callback, and time does not stop.
FairSpec ==
  /\ Spec
  /\ WF_vars(Tick)
  /\ WF_vars(MaxLifetimeFires)
  /\ WF_vars(IdleTimerFires)
  /\ WF_vars(ForceExitFires)

TypeOK ==
  /\ isShuttingDown \in BOOLEAN
  /\ \A t \in timers : t.remaining >= 0
  /\ stopState \in {"notCalled", "pending", "resolved", "rejected", "threw"}
  /\ exitCode \in {NoExit, 0, 1}
  /\ exited = (exitCode # NoExit)
\* ------------------------------------------------------------------ claims
Armed == ~isShuttingDown

\* C1: whatever triggers arrive and however they interleave, also while the
\* first shutdown() is suspended in await server.stop(), server.stop() is
\* invoked at most once; a call of shutdown() made once the guard is set
\* leaves the guard, the stop call count, the awaited stop and the force-exit
\* handle untouched.
C1_StopAtMostOnce ==
  /\ [](stopCalls <= 1)
  /\ [][(isShuttingDown /\ ~exited')
          => UNCHANGED <<isShuttingDown, stopCalls, stopState, forceExitTimeout,
                         shutdownCause>>]_vars

\* the idle timer fired, and so called shutdown() again, while the shutdown
\* started by SIGINT was suspended in await server.stop()
C1_Witness ==
  /\ shutdownCause = "SIGINT"
  /\ "idle" \in stderr
  /\ stopState = "pending"
  /\ stopCalls = 1
  /\ ~exited

\* C2: an exit through the force-exit deadline has status 1, and status 0
\* is reached only through the graceful path.
C2_ForceExitStatusOne ==
  /\ (exitPath = "forceExit" => exitCode = 1)
  /\ (exitCode = 0 => exitPath = "graceful")

C4_ForceExitTerminates ==
  /\ (isShuttingDown ~> exited)
  /\ [][(stopState = "pending" /\ ~exited')
          => \E t \in timers, u \in timers' :
               /\ t.id = forceExitTimeout /\ t.kind = "forceExit"
               /\ u.id = forceExitTimeout' /\ u.kind = "forceExit"
               /\ u.remaining <= t.remaining]_vars

\* the process left through the force-exit callback with stop() still pending
C4_Witness ==
  /\ exitPath = "forceExit"
  /\ stopState = "pending"
  /\ stopCalls = 1

\* C5: a stdin data event in Armed replaces the pending idle timer by one
\* with the full idleTimeout, so a shutdown begun by the idle timer begins
\* exactly idleTimeout after the last data event (or after arming).
C5_IdleResetOnData ==
  /\ [](shutdownCause = "idle" => quietFor = idleTimeoutSeconds * MS_PER_SECOND)
  /\ [][(StdinData /\ Armed)
          => /\ {t.remaining : t \in {u \in timers' : u.kind = "idle"}}
                  = {idleTimeoutSeconds * MS_PER_SECOND}
             /\ \E u \in timers' : u.kind = "idle" /\ u.id = idleTimer']_vars

\* the idle timer began shutdown later than idleTimeout after arming, because
\* data had arrived in between
C5_Witness ==
  /\ shutdownCause = "idle"
  /\ dataSeen
  /\ armedFor > idleTimeoutSeconds * MS_PER_SECOND
  /\ armedFor < 2 * idleTimeoutSeconds * MS_PER_SECOND
C7_IdleDeadlineWithoutData ==
  /\ ((~dataSeen /\ Armed) => armedFor <= idleTimeoutSeconds * MS_PER_SECOND)
  /\ ((~dataSeen /\ shutdownCause = "idle")
        => armedFor = idleTimeoutSeconds * MS_PER_SECOND)
  /\ ((~dataSeen /\ Armed /\ armedFor = idleTimeoutSeconds * MS_PER_SECOND)
        => \E t \in Due(timers) : t.kind = "idle")

C7_Witness ==
  /\ shutdownCause = "idle"
  /\ ~dataSeen
  /\ idleTimeoutSeconds < maxLifetimeSeconds
  /\ armedFor = idleTimeoutSeconds * MS_PER_SECOND

\* C8: SIGINT, SIGTERM and stdin close received in Armed each begin shutdown
\* in the very step that handles them (guard set, server.stop() invoked,
\* force-exit timer armed), whatever the timers; a shutdown they began exits
\* with status 0 when server.stop() resolves.
C8_SignalsBeginShutdown ==
  /\ [][((Sigint \/ Sigterm \/ StdinClose) /\ Armed)
          => /\ isShuttingDown'
             /\ stopCalls' = stopCalls + 1
             /\ shutdownCause' \in {"SIGINT", "SIGTERM", "close"}
             /\ (exited' \/ Pending(timers', forceExitTimeout'))]_vars
  /\ []((shutdownCause \in {"SIGINT", "SIGTERM", "close"} /\ stopState = "resolved")
          => (exited /\ exitCode = 0))

\* stdin closed before any time had passed and the process exited gracefully
C8_Witness ==
  /\ shutdownCause = "close"
  /\ armedFor = 0
  /\ stopState = "resolved"
  /\ exitCode = 0

\* C9: when server.stop() resolves, the force-exit timer is no longer
\* pending when the process exits, the status is 0, and the exit is the
\* graceful one, not the one of the force-exit callback.
C9_GracefulExit ==
  stopState = "resolved"
    => /\ exited
       /\ exitCode = 0
       /\ exitPath = "graceful"
       /\ ~Pending(timers, forceExitTimeout)
       /\ \A t \in timers : t.kind # "forceExit"

C9_Witness ==
  /\ stopState = "resolved"
  /\ exitPath = "graceful"
  /\ shutdownCause = "idle"

\* C10: when server.stop() rejects or throws, the process is terminated with
\* status 1 in the same step; it is never left running in ShuttingDown.
C10_StopFailureExitsOne ==
  stopState \in {"rejected", "threw"}
    => (exited /\ exitCode = 1 /\ exitPath = "stopFailed")

C10_Witness ==
  /\ stopState = "rejected"
  /\ exited
  /\ exitCode = 1
\* C11: the registry is decided by the vision flag alone and never changes:
\* with --vision it is navigate, back, forward (built for screenshot mode),
\* screenshot, move-mouse, click, drag, type of the screenshot module, then
\* press-key, wait, export-to-pdf, close; without it, navigate, back, forward
\* (built for snapshot mode), snapshot, click, hover, type of the snapshot
\* module, then the same four common tools.
C11_RegistryByVision ==
  /\ [](vision =>
          /\ Exports(tools) = <<"navigate", "goBack", "goForward", "screenshot",
                                "moveMouse", "click", "drag", "type",
                                "pressKey", "wait", "pdf", "close">>
          /\ \A i \in 1..3 : tools[i].module = "common" /\ tools[i].arg = "false"
          /\ \A i \in 4..8 : tools[i].module = "screenshot"
          /\ \A i \in 9..12 : tools[i].module = "common" /\ tools[i].arg = "none")
  /\ [](~vision =>
          /\ Exports(tools) = <<"navigate", "goBack", "goForward", "snapshot",
                                "click", "hover", "type",
                                "pressKey", "wait", "pdf", "close">>
          /\ \A i \in 1..3 : tools[i].module = "common" /\ tools[i].arg = "true"
          /\ \A i \in 4..7 : tools[i].module = "snapshot"
          /\ \A i \in 8..11 : tools[i].module = "common" /\ tools[i].arg = "none")
  /\ [][tools' = tools /\ vision' = vision]_vars

\* a process started with --vision still holds the screenshot registry after
\* its watchdog has begun shutdown
C11_Witness ==
  /\ vision
  /\ isShuttingDown
  /\ Len(tools) = 12
  /\ tools[5] = Tool("screenshot", "moveMouse")

\* for the registry of mode v set against the registry of the other mode: names
\* unique in both, common part shared, mode-specific parts disjoint as tools,
\* and the names the two mode-specific parts have in common
DisjointAsTools ==
  [v \in BOOLEAN |->
     LET reg == SelectTools(v)
         other == SelectTools(~v)
         mine == Range(ModePart(reg))
         theirs == Range(ModePart(other))
     IN /\ NoDuplicates(Names(reg))
        /\ NoDuplicates(Names(other))
        /\ mine \cap theirs = {}
        /\ Range(reg) \cap Range(other) = Range(commonTools)
        /\ CommonPart(reg) = commonTools
        /\ CommonPart(other) = commonTools
        /\ Names(commonTools) = <<"press-key", "wait", "export-to-pdf", "close">>
        /\ {ToolName(t) : t \in mine} \cap {ToolName(t) : t \in theirs}
             = {"navigate", "back", "forward", "click", "type"}]

\* C12 as stated: no tool name occurs twice in the registry, the names of
\* the mode-specific parts of the two modes are disjoint, and the common
\* part is shared.
C12_ModeNamesDisjoint ==
  /\ NoDuplicates(Names(tools))
  /\ Range(Names(ModePart(tools))) \cap Range(Names(ModePart(SelectTools(~vision)))) = {}
  /\ CommonPart(tools) = CommonPart(SelectTools(~vision))

\* C12 amended: no tool name occurs twice in the registry of either mode and
\* the common part (press-key, wait, export-to-pdf, close) is shared; the
\* mode-specific parts are disjoint as tools (each is another export or
\* another factory call), while the names navigate, back, forward, click and
\* type occur in the mode-specific parts of both modes.
C12_ModeToolsDisjoint ==
  /\ tools = SelectTools(vision)
  /\ DisjointAsTools[vision]

\* the snapshot registry holds snapshot.click where the vision registry holds
\* screenshot.click: two tools of one name
C12_Witness ==
  /\ ~vision
  /\ Tool("snapshot", "click") \in Range(ModePart(tools))
  /\ Tool("screenshot", "click") \in Range(ModePart(SelectTools(~vision)))
  /\ ToolName(Tool("snapshot", "click")) = ToolName(Tool("screenshot", "click"))
KindTimers(ts, kind) == {t \in ts : t.kind = kind}

\* C13: whichever way the process exits, no timer of the watchdog is pending
\* at the moment of exit.
C13_NoTimerPendingAtExit ==
  exited => timers = {}

\* C14: a failure of server.stop() is written to the error stream before the
\* process exits with status 1.
C14_StopFailureLogged ==
  exitPath = "stopFailed" => "stopFailed" \in stderr

\* the state of the watchdog state machine
WatchdogState ==
  IF exited THEN "Terminated" ELSE IF isShuttingDown THEN "ShuttingDown" ELSE "Armed"

\* C15: the watchdog only moves forward, Armed to ShuttingDown to Terminated:
\* isShuttingDown is never set back to false, no event returns the watchdog
\* to Armed, and nothing happens once it is Terminated.
C15_ForwardOnly ==
  /\ [](exited => isShuttingDown)
  /\ [][/\ isShuttingDown => isShuttingDown'
        /\ exited => exited'
        /\ <<WatchdogState, WatchdogState'>> \in
             {<<"Armed", "Armed">>, <<"Armed", "ShuttingDown">>,
              <<"Armed", "Terminated">>, <<"ShuttingDown", "ShuttingDown">>,
              <<"ShuttingDown", "Terminated">>}]_vars

\* server.stop() rejected and the process is Terminated with the guard set
C15_Witness ==
  /\ WatchdogState = "Terminated"
  /\ stopState = "rejected"
  /\ isShuttingDown

\* C16: no force-exit timer exists while Armed; the step that sets the guard
\* arms it, with its full duration and before server.stop() is invoked (so
\* it is armed even when stop() throws at once); never are two pending.
C16_ForceExitOnlyInShutdown ==
  /\ [](Armed => (forceExitTimeout = NoTimer /\ KindTimers(timers, "forceExit") = {}))
  /\ [](Cardinality(KindTimers(timers, "forceExit")) <= 1)
  /\ [][(Armed /\ ~Armed')
          => KindTimers(timers', "forceExit")
               = {[id |-> forceExitTimeout', kind |-> "forceExit",
                   remaining |-> FORCE_EXIT_MS]}]_vars

\* server.stop() threw at once and the force-exit timer had been armed already
C16_Witness ==
  /\ stopState = "threw"
  /\ Pending(timers, forceExitTimeout)
  /\ Cardinality(KindTimers(timers, "forceExit")) = 1

\* C17: at most one idle timer is pending and it is the one the idleTimer
\* handle holds: every stdin data event clears the held timer before it arms
\* the next, so a replaced idle timer never fires.
C17_OneIdleTimer ==
  /\ Cardinality(KindTimers(timers, "idle")) <= 1
  /\ \A t \in KindTimers(timers, "idle") : t.id = idleTimer

\* data re-armed the idle timer some time after arming, and one idle timer
\* is pending
C17_Witness ==
  /\ dataSeen
  /\ Armed
  /\ quietFor < armedFor
  /\ Cardinality(KindTimers(timers, "idle")) = 1
\* C18: the watchdog is armed before server.start() is begun: while start()
\* is still pending both timers already run, their deadlines count from
\* arming and the completion of start() does not move them, and a trigger
\* arriving while start() is pending invokes server.stop() all the same.
C18_ArmedBeforeStart ==
  /\ [](Armed => \A t \in KindTimers(timers, "maxLifetime") :
                    t.remaining + armedFor = maxLifetimeSeconds * MS_PER_SECOND)
  /\ [](Armed => /\ KindTimers(timers, "idle") # {}
                 /\ \A t \in KindTimers(timers, "idle") :
                      t.remaining + quietFor = idleTimeoutSeconds * MS_PER_SECOND)
  /\ [][(startState = "pending" /\ startState' = "started") => timers' = timers]_vars
  /\ [][(Armed /\ ~Armed' /\ startState = "pending")
          => (stopCalls' = stopCalls + 1 /\ startState' = "pending")]_vars

\* the idle timer ran out and server.stop() was invoked while server.start()
\* was still in progress
C18_Witness ==
  /\ startState = "pending"
  /\ shutdownCause = "idle"
  /\ stopCalls = 1
  /\ armedFor = idleTimeoutSeconds * MS_PER_SECOND

\* C19: stdin data that arrives once shutdown has begun re-arms the idle
\* timer at most: neither the data nor the firing of that idle timer invokes
\* server.stop() again or touches the force-exit timer, whose deadline stays
\* FORCE_EXIT_MS after the beginning of shutdown, and the process does not
\* outlive that deadline.
C19_DataCannotPostponeExit ==
  /\ []((isShuttingDown /\ ~exited) => shutdownFor <= FORCE_EXIT_MS)
  /\ []((stopState = "pending" /\ ~exited)
          => KindTimers(timers, "forceExit")
               = {[id |-> forceExitTimeout, kind |-> "forceExit",
                   remaining |-> FORCE_EXIT_MS - shutdownFor]})
  /\ [][((StdinData \/ IdleTimerFires) /\ isShuttingDown)
          => /\ KindTimers(timers', "forceExit") = KindTimers(timers, "forceExit")
             /\ UNCHANGED <<isShuttingDown, forceExitTimeout, stopCalls, stopState,
                            exitVars>>]_vars

\* the force-exit timer is due FORCE_EXIT_MS after SIGINT began shutdown,
\* although data re-armed the idle timer during shutdown and an idle timer
\* fired during shutdown
C19_Witness ==
  /\ shutdownCause = "SIGINT"
  /\ stopState = "pending"
  /\ ~exited
  /\ shutdownFor = FORCE_EXIT_MS
  /\ "idle" \in stderr
  /\ KindTimers(timers, "idle") # {}
  /\ \E t \in Due(timers) : t.kind = "forceExit"

\* C20: a stdin data event changes the idle timer and nothing else of the
\* program: not the guard, the maxLifetime timer, the force-exit timer, the
\* registry, the stop call or the exit status; leaving Armed is always the
\* step of an idle timer fire, a maxLifetime timer fire, SIGINT, SIGTERM or
\* stdin close.
C20_DataTouchesIdleTimerOnly ==
  /\ [][StdinData
          => /\ {t \in timers' : t.kind # "idle"} = {t \in timers : t.kind # "idle"}
             /\ UNCHANGED <<isShuttingDown, maxLifetimeTimeout, forceExitTimeout,
                            vision, tools, stopCalls, stopState, startState,
                            stdinOpen, stderr, exitVars>>]_vars
  /\ [][(Armed /\ ~Armed')
          => (IdleTimerFires \/ MaxLifetimeFires \/ Sigint \/ Sigterm \/ StdinClose)]_vars

\* data has just re-armed the idle timer in Armed while the maxLifetime timer
\* kept counting
C20_Witness ==
  /\ Armed
  /\ dataSeen
  /\ quietFor = 0
  /\ armedFor > 0
  /\ \E t \in KindTimers(timers, "maxLifetime") :
       t.remaining = maxLifetimeSeconds * MS_PER_SECOND - armedFor
  /\ \E t \in KindTimers(timers, "idle") :
       t.remaining = idleTimeoutSeconds * MS_PER_SECOND
====
